---- MODULE Spec2Model ----
(***************************************************************************)
(* State-machine model of src/src/index.js: the SSE relay (GET /sse), the  *)
(* task submission protocol (POST /api/perform) and GET /health, over the  *)
(* two process-wide maps activeConnections and taskResults.                *)
(*                                                                         *)
(* JavaScript runs one callback at a time, so one action is the code that  *)
(* runs between two suspension points (await fetch, await reader.read,     *)
(* timer callbacks).                                                       *)
(***************************************************************************)
EXTENDS Integers, Sequences, FiniteSets, TLC

(***************************************************************************)
(* Bounds of the model.                                                    *)
(***************************************************************************)
MaxCalls == 2
MaxReads == 2
MaxClock == 1

Calls == 1..MaxCalls
\* Every POST /api/perform call opens its own GET /sse session (loopback).
Sessions == Calls

(***************************************************************************)
(* Text.  A string is a sequence of tokens; the tokens are the marker      *)
(* "data:" (five characters), one blank, one line feed, and JSON texts.    *)
(***************************************************************************)
Marker == "data:"
SP == " "
NL == "\n"
Whitespace == {SP, NL}

\* JSON texts the upstream may put in a frame.
TDone == "{method:notifications/message,params:{data:{result:{done:true,answer:42}}}}"
TMsg == "{method:notifications/message,params:{data:{result:{answer:1}}}}"
TOther == "{method:notifications/progress,params:{data:{result:{done:true}}}}"
TNumber == "42"
TNull == "null"
TBroken == "{method:"
\* The text of TDone in two parts, for a chunk boundary inside the payload.
TDoneHead == "{method:notifications/message,params:{data:"
TDoneTail == "{result:{done:true,answer:42}}}}"

\* JSON.parse on the texts above: <<>> when it throws, <<value>> otherwise.
JsonValues ==
  [t \in {TDone, TMsg, TOther, TNumber, TNull} |->
     CASE t = TDone  -> [type |-> "object", method |-> "notifications/message",
                         done |-> "true", result |-> "{done:true,answer:42}"]
       [] t = TMsg   -> [type |-> "object", method |-> "notifications/message",
                         done |-> "undefined", result |-> "{answer:1}"]
       [] t = TOther -> [type |-> "object", method |-> "notifications/progress",
                         done |-> "true", result |-> "{done:true}"]
       [] t = TNumber -> [type |-> "number", method |-> "undefined",
                          done |-> "undefined", result |-> "undefined"]
       [] t = TNull  -> [type |-> "null", method |-> "", done |-> "", result |-> ""]]

\* The characters of a text: two parts side by side are the whole text.
Characters(data) == IF data = <<TDoneHead, TDoneTail>> THEN <<TDone>> ELSE data

JSONParse(data) ==
  LET text == Characters(data)
  IN IF Len(text) = 1 /\ text[1] \in DOMAIN JsonValues THEN <<JsonValues[text[1]]>> ELSE <<>>

\* event.startsWith("data:")
StartsWithData(event) == Len(event) >= 1 /\ event[1] = Marker

\* event.slice(5): the marker is five characters, one token here.
Slice5(event) == IF StartsWithData(event) THEN Tail(event) ELSE <<>>

RECURSIVE TrimStart(_)
TrimStart(s) ==
  IF s # <<>> /\ Head(s) \in Whitespace THEN TrimStart(Tail(s)) ELSE s

RECURSIVE TrimEnd(_)
TrimEnd(s) ==
  IF s # <<>> /\ s[Len(s)] \in Whitespace THEN TrimEnd(SubSeq(s, 1, Len(s) - 1)) ELSE s

\* String.prototype.trim
Trim(s) == TrimEnd(TrimStart(s))

\* chunk.split("\n\n"): cut at each occurrence of two line feeds, left to right.
RECURSIVE SplitRec(_, _)
SplitRec(rest, cur) ==
  IF rest = <<>> THEN <<cur>>
  ELSE IF Len(rest) >= 2 /\ rest[1] = NL /\ rest[2] = NL
       THEN <<cur>> \o SplitRec(SubSeq(rest, 3, Len(rest)), <<>>)
       ELSE SplitRec(Tail(rest), Append(cur, Head(rest)))

RECURSIVE FilterBoolean(_)
FilterBoolean(pieces) ==
  IF pieces = <<>> THEN <<>>
  ELSE IF Head(pieces) = <<>> THEN FilterBoolean(Tail(pieces))
       ELSE <<Head(pieces)>> \o FilterBoolean(Tail(pieces))

\* chunk.split("\n\n").filter(Boolean)
SplitEvents(chunk) == FilterBoolean(SplitRec(chunk, <<>>))

\* The template `data: ${data}\n\n`
Frame(data) == <<Marker, SP>> \o data \o <<NL, NL>>

\* Date.now().toString(): the decimal digits.
RECURSIVE NumberToString(_)
NumberToString(n) == IF n < 10 THEN <<n>> ELSE NumberToString(n \div 10) \o <<n % 10>>

(***************************************************************************)
(* Map: a function whose domain is the set of keys present.                *)
(***************************************************************************)
EmptyMap == <<>>
MapHas(m, k) == k \in DOMAIN m
\* m.get(k): <<>> is undefined, <<v>> the value.
MapGet(m, k) == IF k \in DOMAIN m THEN <<m[k]>> ELSE <<>>
MapSet(m, k, v) == [x \in DOMAIN m \cup {k} |-> IF x = k THEN v ELSE m[x]]
MapDelete(m, k) == [x \in DOMAIN m \ {k} |-> m[x]]
MapSize(m) == Cardinality(DOMAIN m)

(***************************************************************************)
(* State.                                                                  *)
(***************************************************************************)
VARIABLES
  now,               \* Date.now()
  proc,              \* "running", or "crashed" after an uncaught exception
  webhookUrl,        \* WEBHOOK_URL is set (TRUE) or absent (FALSE)
  activeConnections, \* Map connectionId -> {res, taskId}
  taskResults,       \* Map taskId -> {status, result, timestamp}
  call,              \* the POST /api/perform calls
  sess,              \* the GET /sse sessions
  health             \* the body of the last GET /health response, <<>> before the first

vars == <<now, proc, webhookUrl, activeConnections, taskResults, call, sess, health>>

NewSession ==
  [state |-> "IDLE", await |-> "none", taskId |-> <<>>, connectionId |-> <<>>,
   received |-> <<>>, events |-> <<>>, idx |-> 1, reads |-> 0,
   headersSent |-> FALSE, status |-> 0, sink |-> <<>>, sinkState |-> "open",
   error500 |-> "none", rejection |-> "none", lastDelivery |-> "none",
   delivered |-> <<>>, trace |-> <<>>]

NewCall ==
  [pc |-> "idle", message |-> <<>>, taskId |-> <<>>, responses |-> <<>>,
   dispatched |-> FALSE, pollInterval |-> "none", deadline |-> "none", lastTick |-> FALSE]

(***************************************************************************)
(* GET /sse, lines 33-121.                                                 *)
(***************************************************************************)
\* What the runtime does with the rejected promise of the async handler.
RejectionOutcomes == {"unhandled", "handled", "crash"}

\* Chunks the upstream stream may deliver to one reader.read().
Chunks ==
  { <<Marker, SP, TDone, NL, NL>>,
    <<Marker, SP, TMsg, SP, NL, NL>>,
    <<Marker, TBroken, NL, NL, Marker, SP, TOther, NL, NL, Marker, TDone, NL, NL>>,
    <<"event: endpoint", NL, Marker, SP, TMsg, NL, NL,
      Marker, SP, TNull, NL, NL, Marker, TNumber, NL, NL>> }

WebhookOutcomes == {"ok", "non2xx", "neterror"}

\* taskResults.set(taskId, {status, result, timestamp}), lines 100-104
TaskResultsSet(tr, taskId, result, t) ==
  MapSet(tr, taskId, [status |-> "completed", result |-> result, timestamp |-> t])

\* The frame is put in front of the frames already written.
ResWriteFirst(s, data) ==
  [s EXCEPT !.sink = <<Frame(data)>> \o @,
            !.headersSent = TRUE,
            !.status = IF s.headersSent THEN @ ELSE 200]

\* res.write(`data: ${data}\n\n`), line 107: the first write sends the headers.
ResWrite(s, data) ==
  [s EXCEPT !.sink = Append(@, Frame(data)),
            !.headersSent = TRUE,
            !.status = IF s.headersSent THEN @ ELSE 200]

\* The end of one iteration of `for (const event of events)`.
NextEvent(s, steps) ==
  [s EXCEPT !.idx = @ + 1,
            !.delivered = Append(@, s.events[s.idx]),
            !.trace = @ \o steps]

\* A decode fault ends the session instead of the iteration.
DecodeErrorFatal(s) ==
  [NextEvent(s, << <<Len(s.delivered) + 1, "decode-error">> >>) EXCEPT !.state = "FAILED"]

\* The catch of line 108: the error is logged and the loop goes on.
DecodeError(s) ==
  NextEvent(s, << <<Len(s.delivered) + 1, "decode-error">> >>)

\* The kind of the notification is not looked at.
IsCompletionAnyMethod(v) == v.done = "true"

\* The completion-signal test of lines 96-99 on a parsed, non-null value.
IsCompletion(v) == v.method = "notifications/message" /\ v.done = "true"

RECURSIVE RunEvents(_, _, _, _)
RECURSIVE InspectAndWrite(_, _, _, _)

\* Lines 96-110 for the event at s.idx, after its webhook step.
InspectAndWrite(s, tr, t, wh) ==
  LET data == Trim(Slice5(s.events[s.idx]))
      v == JSONParse(data)[1]
      n == Len(s.delivered) + 1
  IN IF v.type = "null"
     THEN \* eventData.method throws a TypeError, caught at line 108
          RunEvents(DecodeError(s), tr, t, wh)
     ELSE IF IsCompletion(v)
          THEN RunEvents(NextEvent(ResWrite(s, data),
                                   << <<n, "inspect">>, <<n, "record">>, <<n, "write">> >>),
                         TaskResultsSet(tr, s.taskId, v.result, t), t, wh)
          ELSE RunEvents(NextEvent(ResWrite(s, data),
                                   << <<n, "inspect">>, <<n, "write">> >>),
                         tr, t, wh)

\* The loop of lines 71-112 from s.idx up to the next suspension point:
\* the webhook fetch of an event (line 79) or the next reader.read().
RunEvents(s, tr, t, wh) ==
  IF s.idx > Len(s.events)
  THEN [s |-> [s EXCEPT !.await = "read", !.events = <<>>, !.idx = 1], tr |-> tr]
  ELSE LET event == s.events[s.idx]
           n == Len(s.delivered) + 1
       IN IF ~StartsWithData(event)
          THEN RunEvents(NextEvent(s, <<>>), tr, t, wh)
          ELSE IF JSONParse(Trim(Slice5(event))) = <<>>
               THEN \* JSON.parse throws, caught at line 108
                    RunEvents(DecodeError(s), tr, t, wh)
               ELSE IF wh
                    THEN [s |-> [s EXCEPT !.await = "webhook",
                                          !.trace = Append(@, <<n, "webhook">>)],
                          tr |-> tr]
                    ELSE InspectAndWrite(s, tr, t, wh)

\* res.status(500).json(...) of line 116: it throws once the headers are sent.
CatchBlock(s) ==
  IF s.headersSent
  THEN [s EXCEPT !.error500 = "threw"]
  ELSE [s EXCEPT !.error500 = "sent", !.headersSent = TRUE, !.status = 500,
                 !.sinkState = "ended"]

\* The finally block, lines 117-120.  `connectionId` is declared inside the
\* try block, so evaluating it here throws a ReferenceError: nothing is
\* deleted, res.end() is not reached, and the handler's promise is rejected.
FinallyBlock(s, o) ==
  LET r == [s EXCEPT !.await = "none", !.rejection = o]
  IN IF o = "handled"
     THEN \* the framework's error handler
          IF r.headersSent
          THEN [r EXCEPT !.sinkState = IF @ = "open" THEN "destroyed" ELSE @]
          ELSE [r EXCEPT !.headersSent = TRUE, !.status = 500, !.sinkState = "ended"]
     ELSE r

ProcAfter(o) == IF o = "crash" THEN "crashed" ELSE proc

\* Lines 34-50: the handler up to `await fetch(MCP_SERVER_URL)`.
SseHandler(s, q) ==
  /\ proc = "running"
  /\ sess[s].state = "IDLE"
  /\ IF q = <<>>
     THEN sess' = [sess EXCEPT ![s] = [@ EXCEPT !.state = "BADREQUEST", !.headersSent = TRUE,
                                                !.status = 400, !.sinkState = "ended"]]
     ELSE sess' = [sess EXCEPT ![s] = [@ EXCEPT !.state = "CONNECTING", !.await = "fetch",
                                                !.taskId = q]]
  /\ UNCHANGED <<health, now, proc, webhookUrl, activeConnections, taskResults, call>>

\* Lines 52-61 when the upstream answers with a success status.
SseConnected(s) ==
  /\ proc = "running"
  /\ sess[s].await = "fetch"
  /\ LET connectionId == NumberToString(now)
     IN /\ activeConnections' =
             MapSet(activeConnections, connectionId, [res |-> s, taskId |-> sess[s].taskId])
        /\ sess' = [sess EXCEPT ![s] = [@ EXCEPT !.state = "STREAMING", !.await = "read",
                                                  !.connectionId = <<connectionId>>]]
  /\ UNCHANGED <<health, now, proc, webhookUrl, taskResults, call>>

\* Lines 44-56 when fetch rejects or the status is not ok, then 114-120.
SseConnectFailed(s, o) ==
  /\ proc = "running"
  /\ sess[s].await = "fetch"
  /\ sess' = [sess EXCEPT ![s] = FinallyBlock(CatchBlock([@ EXCEPT !.state = "FAILED"]), o)]
  /\ proc' = ProcAfter(o)
  /\ UNCHANGED <<health, now, webhookUrl, activeConnections, taskResults, call>>

\* Lines 65-113: reader.read() delivers a chunk.
SseReadChunk(s, chunk) ==
  /\ proc = "running"
  /\ sess[s].await = "read"
  /\ LET r == RunEvents([sess[s] EXCEPT !.received = @ \o chunk,
                                         !.events = SplitEvents(chunk), !.idx = 1,
                                         !.reads = @ + 1],
                        taskResults, now, webhookUrl)
     IN /\ sess' = [sess EXCEPT ![s] = r.s]
        /\ taskResults' = r.tr
  /\ UNCHANGED <<health, now, proc, webhookUrl, activeConnections, call>>

\* Lines 65-66 and 117-120: reader.read() reports done.
SseReadDone(s, o) ==
  /\ proc = "running"
  /\ sess[s].await = "read"
  /\ sess' = [sess EXCEPT ![s] = FinallyBlock([@ EXCEPT !.state = "CLOSED"], o)]
  /\ proc' = ProcAfter(o)
  /\ UNCHANGED <<health, now, webhookUrl, activeConnections, taskResults, call>>

\* Lines 65 and 114-120: reader.read() rejects.
SseReadError(s, o) ==
  /\ proc = "running"
  /\ sess[s].await = "read"
  /\ sess' = [sess EXCEPT ![s] = FinallyBlock(CatchBlock([@ EXCEPT !.state = "FAILED"]), o)]
  /\ proc' = ProcAfter(o)
  /\ UNCHANGED <<health, now, webhookUrl, activeConnections, taskResults, call>>

\* A failed delivery is attempted once more.
WebhookSettledRetry(s, outcome) ==
  IF outcome = "ok"
  THEN [s EXCEPT !.lastDelivery = "settled"]
  ELSE [s EXCEPT !.lastDelivery = "failed",
                 !.trace = Append(@, <<Len(s.delivered) + 1, "webhook">>)]

\* Lines 78-93 once the webhook fetch has settled: a rejection is caught and
\* logged (line 92), the status of the answer is not looked at.
WebhookSettled(s, outcome) ==
  [s EXCEPT !.lastDelivery = IF outcome = "neterror" THEN "failed" ELSE "settled"]

\* Lines 79-113: the webhook fetch settles and the loop goes on.
SseWebhookSettled(s, outcome) ==
  /\ proc = "running"
  /\ sess[s].await = "webhook"
  /\ LET r == InspectAndWrite(WebhookSettled(sess[s], outcome), taskResults, now, webhookUrl)
     IN /\ sess' = [sess EXCEPT ![s] = r.s]
        /\ taskResults' = r.tr
  /\ UNCHANGED <<health, now, proc, webhookUrl, activeConnections, call>>

\* The subscriber closes its connection.  The handler registers no listener
\* for it (no req.on("close") in lines 33-121): the session is not told, and
\* a later res.write of line 107 on the closed sink returns false without
\* throwing, so sink goes on listing the frames handed to res.write.
ClientDisconnect(s) ==
  /\ proc = "running"
  /\ sess[s].state = "STREAMING"
  /\ sess[s].sinkState = "open"
  /\ sess' = [sess EXCEPT ![s] = [@ EXCEPT !.sinkState = "disconnected"]]
  /\ UNCHANGED <<health, now, proc, webhookUrl, activeConnections, taskResults, call>>

(***************************************************************************)
(* POST /api/perform, lines 123-186.                                       *)
(***************************************************************************)
Undefined == <<>>
\* The request bodies tried: no message, an empty one, a task.
Messages == {Undefined, <<"">>, <<"find docs">>}

\* Only an absent message is refused.
TruthyDefinedOnly(m) == m # Undefined

\* JavaScript truthiness of req.body.message (line 125).
Truthy(m) == m # Undefined /\ m[1] # ""

DispatchOutcomes == {"ok", "notok", "neterror"}

Response(code, error, result) == [code |-> code, error |-> error, result |-> result]

\* res.json / res.status(..).json on the call's response: one more attempt.
Respond(c, r) == [c EXCEPT !.responses = Append(@, r)]

\* The record is returned and left in the map.
CheckTaskStatusKeep(tr, taskId) ==
  [result |-> MapGet(tr, taskId), tr |-> tr]

\* checkTaskStatus, lines 159-166.
CheckTaskStatus(tr, taskId) ==
  LET result == MapGet(tr, taskId)
  IN IF result # <<>>
     THEN [result |-> result, tr |-> MapDelete(tr, taskId)]
     ELSE [result |-> <<>>, tr |-> tr]

\* Lines 124-134: validation, task id, the loopback fetch is started.
PerformHandler(c, m) ==
  /\ proc = "running"
  /\ call[c].pc = "idle"
  /\ IF c = 1 THEN TRUE ELSE call[c - 1].pc # "idle"
  /\ IF ~Truthy(m)
     THEN call' = [call EXCEPT ![c] =
                     Respond([@ EXCEPT !.pc = "rejected", !.message = m],
                             Response(400, "Message is required", <<>>))]
     ELSE call' = [call EXCEPT ![c] = [@ EXCEPT !.pc = "loopback", !.message = m,
                                                !.taskId = NumberToString(now)]]
  /\ UNCHANGED <<health, now, proc, webhookUrl, activeConnections, taskResults, sess>>

\* The loopback request reaches the GET /sse route.
LoopbackRequest(s) ==
  /\ call[s].pc = "loopback"
  /\ SseHandler(s, call[s].taskId)

\* The loopback fetch is not awaited: the dispatch is started right away.
PerformLoopbackSettledEarly(c) ==
  /\ proc = "running"
  /\ call[c].pc = "loopback"
  /\ call' = [call EXCEPT ![c] = [@ EXCEPT !.pc = "dispatch", !.dispatched = TRUE]]
  /\ UNCHANGED <<health, now, proc, webhookUrl, activeConnections, taskResults, sess>>

\* Lines 132-151: the loopback fetch resolves once the session has sent its
\* response head; a status that is not ok is thrown and caught at line 182.
PerformLoopbackSettled(c) ==
  /\ proc = "running"
  /\ call[c].pc = "loopback"
  /\ sess[c].headersSent
  /\ IF sess[c].status = 200
     THEN call' = [call EXCEPT ![c] = [@ EXCEPT !.pc = "dispatch", !.dispatched = TRUE]]
     ELSE call' = [call EXCEPT ![c] =
                     Respond([@ EXCEPT !.pc = "failed"],
                             Response(500, "Failed to perform action", <<>>))]
  /\ UNCHANGED <<health, now, proc, webhookUrl, activeConnections, taskResults, sess>>

\* Lines 140-185: the dispatch fetch settles; on success the poll interval
\* and the deadline timer are started and the handler returns.
PerformDispatchSettled(c, outcome) ==
  /\ proc = "running"
  /\ call[c].pc = "dispatch"
  /\ IF outcome = "ok"
     THEN call' = [call EXCEPT ![c] = [@ EXCEPT !.pc = "started", !.pollInterval = "active",
                                                !.deadline = "pending"]]
     ELSE call' = [call EXCEPT ![c] =
                     Respond([@ EXCEPT !.pc = "failed"],
                             Response(500, "Failed to perform action", <<>>))]
  /\ UNCHANGED <<health, now, proc, webhookUrl, activeConnections, taskResults, sess>>

\* The setInterval callback, lines 168-174.  The interval is 1000 ms and the
\* deadline 300000 ms, so ticks come before the deadline; `last` tells that
\* this tick is the last one before the deadline.
PollTick(c, last) ==
  /\ proc = "running"
  /\ call[c].pollInterval = "active"
  /\ ~call[c].lastTick
  /\ LET r == CheckTaskStatus(taskResults, call[c].taskId)
     IN /\ taskResults' = r.tr
        /\ IF r.result # <<>>
           THEN call' = [call EXCEPT ![c] =
                           Respond([@ EXCEPT !.pollInterval = "cleared"],
                                   Response(200, "", r.result))]
           ELSE call' = [call EXCEPT ![c] = [@ EXCEPT !.lastTick = last]]
  /\ UNCHANGED <<health, now, proc, webhookUrl, activeConnections, sess>>

\* The setTimeout callback, lines 176-181, 300000 ms after the timers were
\* started, hence after the last tick.  res.status(408).json on a response
\* already sent throws inside the timer: an uncaught exception.
DeadlineTimer(c) ==
  /\ proc = "running"
  /\ call[c].deadline = "pending"
  /\ IF call[c].pollInterval = "active" THEN call[c].lastTick ELSE TRUE
  /\ LET cleared == [call[c] EXCEPT !.deadline = "fired",
                                    !.pollInterval = "cleared"]
     IN IF ~MapHas(taskResults, call[c].taskId)
        THEN /\ call' = [call EXCEPT ![c] =
                           Respond(cleared, Response(408, "Task timeout", <<>>))]
             /\ proc' = IF call[c].responses # <<>> THEN "crashed" ELSE proc
        ELSE /\ call' = [call EXCEPT ![c] = cleared]
             /\ proc' = proc
  /\ UNCHANGED <<health, now, webhookUrl, activeConnections, taskResults, sess>>

(***************************************************************************)
(* GET /health, lines 188-194.                                             *)
(***************************************************************************)
\* pendingTasks counts the submissions that wait for their completion.
HealthSnapshotWaiting(ac, tr) ==
  [status |-> "ok", connections |-> MapSize(ac),
   pendingTasks |-> Cardinality({c \in Calls : call[c].pollInterval = "active"})]

\* The body of lines 189-193.
HealthSnapshot(ac, tr) ==
  [status |-> "ok", connections |-> MapSize(ac), pendingTasks |-> MapSize(tr)]

\* Lines 188-194: the handler is synchronous, one step.
Health ==
  /\ proc = "running"
  /\ health' = <<HealthSnapshot(activeConnections, taskResults)>>
  /\ UNCHANGED <<now, proc, webhookUrl, activeConnections, taskResults, call, sess>>

\* Date.now() advances.
ClockTick ==
  /\ proc = "running"
  /\ now < MaxClock
  /\ now' = now + 1
  /\ UNCHANGED <<health, proc, webhookUrl, activeConnections, taskResults, call, sess>>

(***************************************************************************)
(* The specifications.                                                     *)
(***************************************************************************)
Init ==
  /\ now = 0
  /\ proc = "running"
  /\ webhookUrl \in BOOLEAN
  /\ activeConnections = EmptyMap
  /\ taskResults = EmptyMap
  /\ call = [c \in Calls |-> NewCall]
  /\ sess = [s \in Sessions |-> NewSession]
  /\ health = <<>>

\* The upstream delivers at most MaxReads chunks to a session.
UpstreamChunk(s, chunk) ==
  /\ sess[s].reads < MaxReads
  /\ SseReadChunk(s, chunk)

\* The upstream delivers its one completion frame.
UpstreamCompletion(s) ==
  /\ sess[s].reads = 0
  /\ SseReadChunk(s, <<Marker, SP, TDone, NL, NL>>)

\* The text the upstream sends on a stream that is cut into chunks anywhere:
\* two frames, the second the completion signal.
UpstreamStream ==
  <<Marker, SP, TMsg, NL, NL, Marker, SP, TDoneHead, TDoneTail, NL, NL>>

Pieces ==
  {SubSeq(UpstreamStream, i, j) : i \in 1..Len(UpstreamStream), j \in 1..Len(UpstreamStream)}
    \ {<<>>}

\* reader.read() delivers the next piece of UpstreamStream, of any length.
UpstreamPiece(s, chunk) ==
  /\ sess[s].reads < MaxReads
  /\ LET text == sess[s].received \o chunk
     IN /\ Len(text) <= Len(UpstreamStream)
        /\ text = SubSeq(UpstreamStream, 1, Len(text))
  /\ SseReadChunk(s, chunk)

\* One submission, every upstream input and every runtime outcome.
Next ==
  \/ ClockTick
  \/ \E m \in Messages : PerformHandler(1, m)
  \/ LoopbackRequest(1)
  \/ SseConnected(1)
  \/ \E o \in RejectionOutcomes : SseConnectFailed(1, o)
  \/ \E chunk \in Chunks : UpstreamChunk(1, chunk)
  \/ \E o \in RejectionOutcomes : SseReadDone(1, o)
  \/ \E o \in RejectionOutcomes : SseReadError(1, o)
  \/ \E o \in WebhookOutcomes : SseWebhookSettled(1, o)
  \/ PerformLoopbackSettled(1)
  \/ \E o \in DispatchOutcomes : PerformDispatchSettled(1, o)
  \/ \E last \in BOOLEAN : PollTick(1, last)
  \/ DeadlineTimer(1)

Spec == Init /\ [][Next]_vars

\* Concurrent submissions: every call, with a task message, no webhook, the
\* upstream sending one completion frame on a stream it keeps open.
PairInit == Init /\ webhookUrl = FALSE

PairNext ==
  \/ ClockTick
  \/ \E c \in Calls : PerformHandler(c, <<"find docs">>)
  \/ \E s \in Sessions : LoopbackRequest(s)
  \/ \E s \in Sessions : SseConnected(s)
  \/ \E s \in Sessions : UpstreamCompletion(s)
  \/ \E c \in Calls : PerformLoopbackSettled(c)
  \/ \E c \in Calls : PerformDispatchSettled(c, "ok")
  \/ \E c \in Calls, last \in BOOLEAN : PollTick(c, last)
  \/ \E c \in Calls : DeadlineTimer(c)

PairSpec == PairInit /\ [][PairNext]_vars

\* The concurrent submissions while they wait, observed through GET /health
\* at any moment.
HealthNext ==
  \/ ClockTick
  \/ \E c \in Calls : PerformHandler(c, <<"find docs">>)
  \/ \E s \in Sessions : LoopbackRequest(s)
  \/ \E s \in Sessions : SseConnected(s)
  \/ \E s \in Sessions : UpstreamCompletion(s)
  \/ \E c \in Calls : PerformLoopbackSettled(c)
  \/ \E c \in Calls : PerformDispatchSettled(c, "ok")
  \/ \E c \in Calls, last \in BOOLEAN : PollTick(c, last)
  \/ Health

HealthSpec == PairInit /\ [][HealthNext]_vars

\* One submission whose upstream stream arrives cut into chunks anywhere.
CutNext ==
  \/ ClockTick
  \/ PerformHandler(1, <<"find docs">>)
  \/ LoopbackRequest(1)
  \/ SseConnected(1)
  \/ \E chunk \in Pieces : UpstreamPiece(1, chunk)
  \/ \E o \in WebhookOutcomes : SseWebhookSettled(1, o)
  \/ PerformLoopbackSettled(1)
  \/ PerformDispatchSettled(1, "ok")
  \/ \E last \in BOOLEAN : PollTick(1, last)

CutSpec == Init /\ [][CutNext]_vars

\* One submission whose subscriber may disconnect while the upstream stream
\* stays open: it sends chunks and neither ends nor fails.  What the event
\* loop guarantees: a started webhook fetch settles, an armed timer fires.
DisconnectNext ==
  \/ ClockTick
  \/ PerformHandler(1, <<"find docs">>)
  \/ LoopbackRequest(1)
  \/ SseConnected(1)
  \/ \E chunk \in Chunks : UpstreamChunk(1, chunk)
  \/ \E o \in WebhookOutcomes : SseWebhookSettled(1, o)
  \/ ClientDisconnect(1)
  \/ PerformLoopbackSettled(1)
  \/ PerformDispatchSettled(1, "ok")
  \/ \E last \in BOOLEAN : PollTick(1, last)
  \/ DeadlineTimer(1)

DisconnectSpec ==
  /\ Init
  /\ [][DisconnectNext]_vars
  /\ WF_vars(\E o \in WebhookOutcomes : SseWebhookSettled(1, o))
  /\ WF_vars(\E last \in BOOLEAN : PollTick(1, last))
  /\ WF_vars(DeadlineTimer(1))

(***************************************************************************)
(* The claims.                                                             *)
(***************************************************************************)
Answered(c) == call[c].responses # <<>>
Ended(s) == sess[s].state \in {"CLOSED", "FAILED"}
Range(f) == {f[i] : i \in DOMAIN f}
Parses(e) == StartsWithData(e) /\ JSONParse(Trim(Slice5(e))) # <<>>
Unparseable(e) == StartsWithData(e) /\ JSONParse(Trim(Slice5(e))) = <<>>
Decodes(e) == Parses(e) /\ JSONParse(Trim(Slice5(e)))[1].type # "null"

RECURSIVE MarkerFrames(_)
MarkerFrames(events) ==
  IF events = <<>> THEN <<>>
  ELSE (IF StartsWithData(Head(events)) THEN <<Frame(Trim(Slice5(Head(events))))>> ELSE <<>>)
       \o MarkerFrames(Tail(events))

RECURSIVE DecodedFrames(_)
DecodedFrames(events) ==
  IF events = <<>> THEN <<>>
  ELSE (IF Decodes(Head(events)) THEN <<Frame(Trim(Slice5(Head(events))))>> ELSE <<>>)
       \o DecodedFrames(Tail(events))

\* C1: a POST /api/perform call surfaces exactly one response; once one has
\* been sent, no second response is sent or attempted for the call (in
\* particular no 408 at the deadline after a success response).
C1_ExactlyOneResponse ==
  \A c \in Calls : Len(call[c].responses) <= 1

\* C2: every accepted submission is answered: by the deadline at the latest
\* it has received the consumed TaskResult or the 408 timeout response.
C2_AnsweredAtDeadline ==
  \A c \in Calls : call[c].deadline = "fired" => Answered(c)

\* C3: no-leak law: a Connection entry is in the registry only between
\* stream-open and stream-close/error, so once a session has ended (end of
\* stream, read error) the registry holds no entry of it.
C3_NoLeak ==
  proc = "running" =>
    \A k \in DOMAIN activeConnections : ~Ended(activeConnections[k].res)

\* C4: exactly-once law of the TaskCorrelator: a poll tick for a task id with
\* no record answers nothing and leaves the map as it was; a poll tick for a
\* task id with a record answers with that record and removes it, so every
\* later tick for the id finds it absent; the records of other ids are kept.
C4_TryConsume(c, last) ==
  LET taskId == call[c].taskId
  IN PollTick(c, last) =>
       IF MapHas(taskResults, taskId)
       THEN /\ call'[c].responses =
                 Append(call[c].responses, Response(200, "", <<taskResults[taskId]>>))
            /\ DOMAIN taskResults' = DOMAIN taskResults \ {taskId}
            /\ \A k \in DOMAIN taskResults' : taskResults'[k] = taskResults[k]
       ELSE /\ call'[c].responses = call[c].responses
            /\ taskResults' = taskResults

\* C4: the law at every poll tick of every call.
C4_ExactlyOnce == [][\A c \in Calls, last \in BOOLEAN : C4_TryConsume(c, last)]_vars

\* Two submissions share a task id; one consumed the record, the other
\* polled afterwards, found nothing and goes on waiting.
C4_Witness ==
  /\ call[1].taskId = call[2].taskId
  /\ call[1].responses # <<>> /\ call[1].responses[1].code = 200
  /\ call[2].pc = "started" /\ call[2].lastTick /\ ~Answered(2)
  /\ ~MapHas(taskResults, call[2].taskId)

\* C5 as stated: the frames written to the sink are, in order, the payloads
\* delivered to the session that begin with the data: marker, marker removed
\* and trimmed; nothing else is dropped.
C5_MarkerFilterOnly ==
  \A s \in Sessions : sess[s].sink = MarkerFrames(sess[s].delivered)

\* C5 as amended: the frames written to the sink are, in order, the payloads
\* delivered to the session that begin with the data: marker and whose
\* trimmed text parses as JSON to a value other than null, marker removed
\* and trimmed; nothing is reordered, duplicated or added.
C5_OrderAndFilter ==
  \A s \in Sessions : sess[s].sink = DecodedFrames(sess[s].delivered)

C5_Witness ==
  /\ Len(sess[1].sink) >= 2
  /\ sess[1].sink[1] # sess[1].sink[2]
  /\ \E i \in DOMAIN sess[1].delivered : ~StartsWithData(sess[1].delivered[i])
  /\ \E i \in DOMAIN sess[1].delivered : Unparseable(sess[1].delivered[i])
  /\ \E i \in DOMAIN sess[1].delivered :
       Decodes(sess[1].delivered[i]) /\ Slice5(sess[1].delivered[i])[1] \in Whitespace

\* C6: fault containment: a malformed (unparseable) payload leaves the
\* session in STREAMING, and every well-formed payload delivered after it
\* (one that parses, to a value other than null) is still inspected for the
\* completion signal and written to the sink.
C6_LaterPayloadsRelayed ==
  \A s \in Sessions :
    LET d == sess[s].delivered
        steps == Range(sess[s].trace)
        frames == Range(sess[s].sink)
    IN \A i \in DOMAIN d :
         Unparseable(d[i]) =>
           \A j \in (i + 1)..Len(d) :
             Decodes(d[j]) =>
               /\ <<j, "inspect">> \in steps
               /\ <<j, "write">> \in steps
               /\ Frame(Trim(Slice5(d[j]))) \in frames

C6_StaysStreaming ==
  \A s \in Sessions :
    Len(sess'[s].delivered) > Len(sess[s].delivered) =>
      /\ sess'[s].state = "STREAMING"
      /\ sess'[s].await \in {"read", "webhook"}

\* C6: both parts, in every state and at every step.
C6_FaultContainment == []C6_LaterPayloadsRelayed /\ [][C6_StaysStreaming]_vars

C6_Witness ==
  \E i, j \in DOMAIN sess[1].delivered :
    /\ i < j
    /\ Unparseable(sess[1].delivered[i])
    /\ Decodes(sess[1].delivered[j])
    /\ <<j, "record">> \in Range(sess[1].trace)
    /\ sess[1].state = "STREAMING"

\* C7: webhook isolation: when a webhook delivery settles, with success, a
\* non-success status or a network error, the session goes on in STREAMING
\* with the same event: the same frame is written, the same TaskResult is
\* recorded and the /api/perform response is not touched; the delivery of
\* an event is attempted once, never again.
C7_OncePerEvent ==
  \A s \in Sessions :
    LET attempts == {i \in DOMAIN sess[s].trace : sess[s].trace[i][2] = "webhook"}
        written == {i \in DOMAIN sess[s].trace : sess[s].trace[i][2] = "write"}
    IN /\ Cardinality({sess[s].trace[i][1] : i \in attempts}) = Cardinality(attempts)
       /\ webhookUrl =>
            {sess[s].trace[i][1] : i \in written} \subseteq {sess[s].trace[i][1] : i \in attempts}

C7_SettleStep(s) ==
  (sess[s].await = "webhook" /\ sess'[s] # sess[s]) =>
    LET data == Trim(Slice5(sess[s].events[sess[s].idx]))
        v == JSONParse(data)[1]
    IN /\ sess'[s].state = "STREAMING"
       /\ sess'[s].await \in {"read", "webhook"}
       /\ call' = call
       /\ proc' = proc
       /\ IF v.type = "null"
          THEN sess'[s].sink = sess[s].sink /\ taskResults' = taskResults
          ELSE /\ sess'[s].sink = Append(sess[s].sink, Frame(data))
               /\ IF v.method = "notifications/message" /\ v.done = "true"
                  THEN taskResults' =
                         MapSet(taskResults, sess[s].taskId,
                                [status |-> "completed", result |-> v.result, timestamp |-> now])
                  ELSE taskResults' = taskResults

\* C7: both parts, in every state and at every step.
C7_WebhookIsolation == []C7_OncePerEvent /\ [][\A s \in Sessions : C7_SettleStep(s)]_vars

\* The delivery of a completion event failed; the event was recorded and
\* written all the same, and the submission was answered with its result.
C7_Witness ==
  /\ sess[1].lastDelivery = "failed"
  /\ sess[1].await = "read"
  /\ sess[1].trace # <<>>
  /\ sess[1].trace[Len(sess[1].trace)] = <<Len(sess[1].delivered), "write">>
  /\ <<Len(sess[1].delivered), "record">> \in Range(sess[1].trace)
  /\ call[1].responses # <<>> /\ call[1].responses[1].code = 200

\* C8: prompt completion: while a submission is unanswered and a completion
\* for its task id is recorded, its poll tick is still to come (the next tick
\* consumes the record and resolves the call with it).
C8_RecordedThenPolled ==
  \A c \in Calls :
    (call[c].pc = "started" /\ ~Answered(c) /\ MapHas(taskResults, call[c].taskId))
      => call[c].pollInterval = "active"

\* C9: no orphaned late completion: a completion recorded for a task id
\* after its submission was answered 408 does not stay in the TaskCorrelator;
\* at the latest when its relay session has ended too, it is gone.
C9_NoOrphan ==
  proc = "running" =>
    \A c \in Calls :
      (call[c].responses = <<Response(408, "Task timeout", <<>>)>> /\ Ended(c))
        => ~MapHas(taskResults, call[c].taskId)

\* C10: a call whose message is empty or absent is answered 400 and nothing
\* else happens: no task id, no relay session, no dispatch, no timer, and
\* the step leaves ConnectionRegistry and TaskCorrelator as they were.
EmptyOrAbsent(m) == m = <<>> \/ m = <<"">>

C10_RefusedState ==
  \A c \in Calls :
    (call[c].pc # "idle" /\ EmptyOrAbsent(call[c].message)) =>
      /\ call[c].responses = <<Response(400, "Message is required", <<>>)>>
      /\ call[c].taskId = <<>>
      /\ ~call[c].dispatched
      /\ call[c].pollInterval = "none"
      /\ call[c].deadline = "none"
      /\ sess[c] = NewSession

C10_RefusedStep ==
  \A c \in Calls :
    (call[c].pc = "idle" /\ call'[c].pc # "idle" /\ EmptyOrAbsent(call'[c].message)) =>
      /\ activeConnections' = activeConnections
      /\ taskResults' = taskResults
      /\ sess' = sess
      /\ proc' = proc

\* C10: the refused call's state, and the frame of the refusing step.
C10_MissingMessage == []C10_RefusedState /\ [][C10_RefusedStep]_vars

C10_Witness ==
  /\ call[1].pc = "rejected"
  /\ call[1].message = <<"">>
  /\ call[1].responses = <<Response(400, "Message is required", <<>>)>>

\* C11: a session whose upstream connection fails goes from CONNECTING to
\* FAILED: its caller has received the one 500 JSON error, no event was
\* relayed, no Connection entry was added, and the cleanup path has completed
\* without a fault (no exception leaves the handler, the process runs on).
C11_ConnectFailureClean ==
  \A s \in Sessions :
    (sess[s].state = "FAILED" /\ sess[s].connectionId = <<>>) =>
      /\ sess[s].status = 500
      /\ sess[s].error500 = "sent"
      /\ sess[s].sink = <<>>
      /\ \A k \in DOMAIN activeConnections : activeConnections[k].res # s
      /\ sess[s].rejection = "none"
      /\ proc = "running"

\* C12: GET /health is a pure read: its body carries the current number of
\* ConnectionRegistry entries and the current number of unconsumed
\* TaskCorrelator records, and the step changes nothing else: not the maps,
\* not a session, not a call or its timers.
C12_HealthStep ==
  health' # health =>
    /\ health' = <<[status |-> "ok",
                    connections |-> Cardinality(DOMAIN activeConnections),
                    pendingTasks |-> Cardinality(DOMAIN taskResults)]>>
    /\ activeConnections' = activeConnections
    /\ taskResults' = taskResults
    /\ sess' = sess
    /\ call' = call
    /\ proc' = proc

C12_HealthPureRead == [][C12_HealthStep]_vars

\* A snapshot taken while two submissions wait on one task id whose record
\* lies unconsumed: two connections, one record.
C12_Witness ==
  /\ health # <<>>
  /\ health[1].connections = 2
  /\ health[1].pendingTasks = 1
  /\ Cardinality({c \in Calls : call[c].pollInterval = "active"}) = 2
  /\ MapSize(activeConnections) = 2
  /\ MapSize(taskResults) = 1

\* C13: a relay session that reached STREAMING and has ended, by the end of
\* the upstream stream (CLOSED) or by a read error (FAILED), has closed its
\* downstream sink and removed its Connection entry: no session ends with
\* the sink left open.
C13_EndedSinkClosed ==
  proc = "running" =>
    \A s \in Sessions :
      (Ended(s) /\ sess[s].connectionId # <<>>) =>
        /\ sess[s].sinkState # "open"
        /\ \A k \in DOMAIN activeConnections : activeConnections[k].res # s

\* C14: any two accepted POST /api/perform calls have distinct task ids, also
\* when both are accepted at the same clock value, so neither consumes or
\* overwrites the completion recorded for the other.
C14_DistinctTaskIds ==
  \A c1, c2 \in Calls :
    (c1 # c2 /\ call[c1].taskId # <<>> /\ call[c2].taskId # <<>>) =>
      call[c1].taskId # call[c2].taskId

\* C15: the frame decoder tolerates chunk boundaries that split a frame:
\* once the chunks read so far make up whole frames, the frames relayed are
\* those decoded from the same text delivered as one frame-aligned chunk,
\* however the text was cut into chunks.
FrameAligned(text) ==
  Len(text) >= 2 /\ text[Len(text) - 1] = NL /\ text[Len(text)] = NL

C15_CutTolerant ==
  \A s \in Sessions :
    (sess[s].await = "read" /\ FrameAligned(sess[s].received)) =>
      sess[s].sink = DecodedFrames(SplitEvents(sess[s].received))

\* C16: a relay session whose subscriber has disconnected ends: it
\* eventually stops reading upstream (no read is pending any more) and its
\* Connection entry is released, even if the upstream never ends or fails.
C16_Released(s) ==
  /\ sess[s].await = "none"
  /\ \A k \in DOMAIN activeConnections : activeConnections[k].res # s

C16_DisconnectEndsSession ==
  \A s \in Sessions : (sess[s].sinkState = "disconnected") ~> C16_Released(s)

\* C17: per-event step protocol: the steps of one payload run in the order
\* forward to the webhook, record the completion, write to the sink; with a
\* destination configured every payload that carries the marker has been
\* forwarded, a malformed one too (only its record and write steps are
\* skipped); with no destination nothing is forwarded.
StepRank(step) ==
  CASE step = "webhook" -> 1
    [] step = "inspect" -> 2
    [] step = "record" -> 3
    [] step = "write" -> 4
    [] OTHER -> 5

C17_StepProtocol ==
  \A s \in Sessions :
    LET d == sess[s].delivered
        tr == sess[s].trace
        forwarded == {tr[p][1] : p \in {q \in DOMAIN tr : tr[q][2] = "webhook"}}
    IN /\ \A p, q \in DOMAIN tr :
            (p < q /\ tr[p][1] = tr[q][1]) => StepRank(tr[p][2]) < StepRank(tr[q][2])
       /\ \A i \in DOMAIN d :
            StartsWithData(d[i]) => (i \in forwarded <=> webhookUrl)
       /\ \A i \in DOMAIN d :
            Unparseable(d[i]) =>
              /\ <<i, "record">> \notin Range(tr)
              /\ <<i, "write">> \notin Range(tr)

\* C18: completion detection: a payload is recorded in the TaskCorrelator,
\* under the session's own task id, with status completed, its nested result
\* and the time of the step, if and only if it parses as structured data, is
\* a notification of kind message and its nested result carries done = true;
\* every other payload leaves the TaskCorrelator as it was, and a second
\* matching payload overwrites the unconsumed record of the task id.
C18_Matches(e) ==
  /\ StartsWithData(e)
  /\ LET v == JSONParse(Trim(Slice5(e)))
     IN /\ v # <<>>
        /\ v[1].type = "object"
        /\ v[1].method = "notifications/message"
        /\ v[1].done = "true"

C18_RecordIffMatch ==
  \A s \in Sessions :
    \A i \in DOMAIN sess[s].delivered :
      <<i, "record">> \in Range(sess[s].trace) <=> C18_Matches(sess[s].delivered[i])

C18_RecordStep ==
  \A s \in Sessions :
    LET d == sess[s].delivered
        e == sess'[s].delivered
        matching == {i \in (Len(d) + 1)..Len(e) : C18_Matches(e[i])}
    IN Len(e) > Len(d) =>
         IF matching = {}
         THEN taskResults' = taskResults
         ELSE LET last == CHOOSE i \in matching : \A j \in matching : j <= i
              IN /\ DOMAIN taskResults' = DOMAIN taskResults \cup {sess[s].taskId}
                 /\ \A k \in DOMAIN taskResults \ {sess[s].taskId} :
                      taskResults'[k] = taskResults[k]
                 /\ taskResults'[sess[s].taskId] =
                      [status |-> "completed",
                       result |-> JSONParse(Trim(Slice5(e[last])))[1].result,
                       timestamp |-> now]

\* C18: the record steps of every session, in every state and at every step.
C18_CompletionDetection == []C18_RecordIffMatch /\ [][C18_RecordStep]_vars

\* A session was sent the completion signal twice, the second time after a
\* notification of another kind with done = true; nothing was consumed and
\* the one record of the task id is that of the second signal.
C18_Witness ==
  /\ call[1].responses = <<>>
  /\ \E i, j, k \in DOMAIN sess[1].delivered :
       /\ i < k /\ k < j
       /\ C18_Matches(sess[1].delivered[i])
       /\ C18_Matches(sess[1].delivered[j])
       /\ Decodes(sess[1].delivered[k])
       /\ JSONParse(Trim(Slice5(sess[1].delivered[k])))[1].done = "true"
       /\ ~C18_Matches(sess[1].delivered[k])
  /\ MapHas(taskResults, sess[1].taskId)
  /\ taskResults[sess[1].taskId].timestamp = 1
  /\ MapSize(taskResults) = 1

\* C19: the task request is dispatched to the backend only after the relay
\* session of the call is established (its upstream connection succeeded and
\* its Connection entry was added); when the session fails to establish, no
\* dispatch is sent and no poll or deadline timer is started.
C19_Registered(c) ==
  /\ sess[c].connectionId # <<>>
  /\ sess[c].taskId = call[c].taskId
  /\ MapHas(activeConnections, sess[c].connectionId[1])

C19_DispatchedState ==
  \A c \in Calls :
    /\ call[c].dispatched => C19_Registered(c)
    /\ (call[c].pollInterval # "none" \/ call[c].deadline # "none") => call[c].dispatched
    /\ (sess[c].state = "FAILED" /\ sess[c].connectionId = <<>>) =>
         /\ ~call[c].dispatched
         /\ call[c].pollInterval = "none"
         /\ call[c].deadline = "none"

C19_DispatchStep ==
  \A c \in Calls :
    (~call[c].dispatched /\ call'[c].dispatched) => C19_Registered(c)

\* C19: in every state, and at the step that starts the dispatch.
C19_DispatchAfterSession == []C19_DispatchedState /\ [][C19_DispatchStep]_vars

\* The dispatch of a call was sent and its timers started, its session
\* being registered.
C19_Witness ==
  /\ call[1].dispatched
  /\ call[1].pc = "started"
  /\ call[1].deadline = "pending"
  /\ C19_Registered(1)
  /\ activeConnections[sess[1].connectionId[1]] = [res |-> 1, taskId |-> call[1].taskId]

\* C20: a relay session sends its 500 JSON error only for a failure before
\* any data frame was written: once a frame has been written to the sink the
\* session never attempts a status/JSON error response.
C20_No500AfterData ==
  \A s \in Sessions : sess[s].sink # <<>> => sess[s].error500 = "none"

====
